---- MODULE Spec2Model ----
(***************************************************************************)
(* Model of src/script.js: the TranscriptionTester upload controller.      *)
(*                                                                         *)
(* Strings are sequences of text tokens, so that concatenation (template   *)
(* literals), containment and the HTML parse done by an innerHTML          *)
(* assignment are all computed, not assumed.  JavaScript values are        *)
(* records tagged with their type.  Every `await` of the source is a       *)
(* suspension point: the code between two awaits is one action, because    *)
(* the browser runs it to completion on its single thread.                 *)
(***************************************************************************)
EXTENDS Integers, Sequences, FiniteSets

\* Number of change events the file input dispatches in a run.
MaxEvents == 2

VARIABLES
    changeEvents,   \* files[0] of every change event dispatched so far
    pc,             \* position of the handleFileUpload call of each event
    fetchResult,    \* what fetch() settled with, per call
    requests,       \* the requests handed to fetch(), in order
    result,         \* the #result element (style.display)
    transcript,     \* the #transcript element (innerHTML, className)
    log             \* order of renders and fetch calls, per call

vars == <<changeEvents, pc, fetchResult, requests, result, transcript, log>>

Events == 1..MaxEvents

----------------------------------------------------------------------------
\* Text

Digit(d) == CASE d = 0 -> "0" [] d = 1 -> "1" [] d = 2 -> "2" [] d = 3 -> "3"
              [] d = 4 -> "4" [] d = 5 -> "5" [] d = 6 -> "6" [] d = 7 -> "7"
              [] d = 8 -> "8" [] d = 9 -> "9"

\* Number-to-string conversion of a template literal: decimal digits.
RECURSIVE NumberToString(_)
NumberToString(n) ==
    IF n < 10 THEN <<Digit(n)>>
    ELSE NumberToString(n \div 10) \o <<Digit(n % 10)>>

\* needle occurs in hay as a contiguous run of tokens.
Contains(hay, needle) ==
    \E i \in 0..(Len(hay) - Len(needle)) :
        \A j \in 1..Len(needle) : hay[i + j] = needle[j]

----------------------------------------------------------------------------
\* JavaScript values

Undefined == [type |-> "undefined"]
Null      == [type |-> "null"]
Str(s)    == [type |-> "string", s |-> s]
\* An object literal of the two properties the code reads; Absent marks a
\* property the object does not have.
Absent    == [type |-> "absent"]
Obj(t, d) == [type |-> "object", transcription |-> t, detail |-> d]

\* new Error(message) and the built-in errors the runtime raises.
Error(message)       == [name |-> "Error", message |-> message]
TypeErrorNull(field) ==
    [name |-> "TypeError",
     message |-> <<"Cannot read properties of null (reading '", field, "')">>]
SyntaxErrorJSON ==
    [name |-> "SyntaxError", message |-> <<"Unexpected end of JSON input">>]
\* The SyntaxError of an engine whose message quotes the start of the text
\* it could not parse (V8: Unexpected token '<', "<!DOCTYPE "... is not
\* valid JSON).
SyntaxErrorToken(quoted) ==
    [name |-> "SyntaxError",
     message |-> <<"Unexpected token '<', \"">> \o quoted
                 \o <<"\"... is not valid JSON">>]

\* Completion records: a normal value or a thrown error.
Normal(v) == [threw |-> FALSE, value |-> v]
Throw(e)  == [threw |-> TRUE, error |-> e]

\* v.name : a property read.  Reading from null or undefined throws.
GetProp(v, name) ==
    IF v.type \in {"null", "undefined"} THEN Throw(TypeErrorNull(name))
    ELSE IF v.type = "object" /\ v[name].type # "absent"
         THEN Normal(v[name])
         ELSE Normal(Undefined)

\* ToBoolean
Truthy(v) ==
    CASE v.type = "undefined" -> FALSE
      [] v.type = "null"      -> FALSE
      [] v.type = "string"    -> v.s # <<>>
      [] OTHER                -> TRUE

\* a || b
Or(a, b) == IF Truthy(a) THEN a ELSE b

\* ToString, as applied by a template literal and by the innerHTML setter.
ToString(v) ==
    CASE v.type = "string"    -> v.s
      [] v.type = "undefined" -> <<"undefined">>
      [] v.type = "null"      -> <<"null">>
      [] OTHER                -> <<"[object Object]">>

----------------------------------------------------------------------------
\* The DOM

\* Markup tokens an HTML fragment parse turns into elements, not text.
IsTag(t) == t \in {"<b>", "</b>"}

\* Markup tokens that open a declaration: the parser drops what follows up
\* to the next `>`, and none of the texts rendered here has one after it.
IsUnclosed(t) == t \in {"<!DOCTYPE "}

\* The text a user reads in an element whose innerHTML was set to html: the
\* fragment is parsed, tags become elements, an unclosed declaration takes
\* the rest of the input, and only text nodes are shown.
TextContent(html) ==
    LET opens == {i \in 1..Len(html) : IsUnclosed(html[i])}
        end   == IF opens = {} THEN Len(html)
                 ELSE (CHOOSE i \in opens : \A j \in opens : i <= j) - 1
    IN  SelectSeq(SubSeq(html, 1, end), LAMBDA t : ~IsTag(t))

LoadingText  == <<"Processing audio with AI...">>
FallbackText == <<"No transcript generated.">>
UnknownError == <<"Unknown error">>
Checklist ==
    <<"\n\nMake sure to:",
      "\n1. Use a supported audio format (MP3, WAV, M4A, FLAC, etc.)",
      "\n2. Check your internet connection",
      "\n3. File is not empty or corrupted",
      "\n4. File is under 25MB">>

\* The page before any upload: result area not shown, transcript empty.
InitialResult     == [display |-> "none"]
InitialTranscript == [innerHTML |-> <<>>, className |-> ""]

\* Mutant: the result area is not made visible.
showLoading_noDisplay ==
    /\ transcript' = [innerHTML |-> LoadingText, className |-> "loading"]
    /\ UNCHANGED result

showLoading ==
    /\ result' = [result EXCEPT !.display = "block"]
    /\ transcript' = [innerHTML |-> LoadingText, className |-> "loading"]

\* Mutant: the `|| 'No transcript generated.'` fallback is missing.
showResult_noFallback(text) ==
    /\ transcript' = [innerHTML |-> ToString(text), className |-> ""]
    /\ UNCHANGED result

\* Mutant: the class of the previous render is not cleared.
showResult_classKept(text) ==
    /\ transcript' = [transcript EXCEPT
                         !.innerHTML = ToString(Or(text, Str(FallbackText)))]
    /\ UNCHANGED result

showResult(text) ==
    /\ transcript' = [innerHTML |-> ToString(Or(text, Str(FallbackText))),
                      className |-> ""]
    /\ UNCHANGED result

\* Mutant: the failure's message is not interpolated into the template.
showError_noMessage(message) ==
    /\ transcript' = [innerHTML |-> <<"Error: ">> \o Checklist,
                      className |-> "error"]
    /\ UNCHANGED result

showError(message) ==
    /\ transcript' = [innerHTML |-> <<"Error: ">> \o message \o Checklist,
                      className |-> "error"]
    /\ UNCHANGED result

\* What is painted: visibility, visible text, CSS class.
RenderedText == TextContent(transcript.innerHTML)

----------------------------------------------------------------------------
\* The network

API_BASE_URL   == "window.location.origin"
TRANSCRIBE_URL == <<API_BASE_URL, "/api/transcribe">>

NoFile == "no file"
Files  == {"set.mp3", "bit.wav"}

HelloWorld   == <<"hello world">>
MarkupText   == <<"<b>", "hi", "</b>">>
FileTooLarge == <<"file too large">>

\* A response body: text that is not JSON, or the JSON value it parses to.
\* The 2xx branch reads only `transcription` and the non-2xx branch only
\* `detail`, so each branch is given the bodies that differ in what it reads.
Unparseable == [type |-> "unparseable"]
\* An HTML page served in place of JSON.
HtmlPage    == [type |-> "unparseable", start |-> <<"<!DOCTYPE ">>]
OkBodies ==
    { Unparseable, HtmlPage, Null, Str(HelloWorld),
      Obj(Absent, Absent),
      Obj(Str(<<>>), Absent),
      Obj(Str(HelloWorld), Absent),
      Obj(Str(MarkupText), Absent) }
ErrorBodies ==
    { Unparseable, Null,
      Obj(Absent, Absent),
      Obj(Absent, Str(FileTooLarge)),
      Obj(Absent, Str(MarkupText)) }

OkStatus    == 200
ErrorStatus == 413
StatusText(status) ==
    IF status = OkStatus THEN <<"OK">> ELSE <<"Payload Too Large">>

Responses ==
    { [status |-> OkStatus, statusText |-> StatusText(OkStatus), body |-> b] :
        b \in OkBodies }
    \cup
    { [status |-> ErrorStatus, statusText |-> StatusText(ErrorStatus), body |-> b] :
        b \in ErrorBodies }

\* What fetch() rejects with when no response arrives.
NetworkErrors ==
    { [name |-> "TypeError", message |-> <<"Failed to fetch">>] }

\* response.ok
Ok(response) == response.status >= 200 /\ response.status <= 299

\* response.json(): the parsed body, or a rejection with a SyntaxError.
Json(response) ==
    IF response.body = Unparseable THEN Throw(SyntaxErrorJSON)
    ELSE IF response.body.type = "unparseable"
         THEN Throw(SyntaxErrorToken(response.body.start))
         ELSE Normal(response.body)

\* Mutant: the file is appended under another field name.
Request_audioField(file) ==
    [url |-> TRANSCRIBE_URL, method |-> "POST", body |-> [audio |-> file]]

\* The request transcribeWithServerless hands to fetch for a file.
Request(file) ==
    [url |-> TRANSCRIBE_URL, method |-> "POST", body |-> [file |-> file]]

\* The error thrown for a non-2xx response.
TranscriptionFailed(response, errorData) ==
    LET detail == GetProp(errorData, "detail") IN
    IF detail.threw THEN detail
    ELSE Throw(Error(<<"Transcription failed: ">>
                     \o NumberToString(response.status) \o <<" ">>
                     \o response.statusText \o <<" - ">>
                     \o ToString(Or(detail.value, Str(UnknownError)))))

\* response.json().catch(() => ({}))
ErrorData(response) ==
    LET parsed == Json(response) IN
    IF parsed.threw THEN Obj(Absent, Absent) ELSE parsed.value

----------------------------------------------------------------------------
\* The handler

NoResult == [kind |-> "none"]

Init ==
    /\ changeEvents = <<>>
    /\ pc = [u \in Events |-> "idle"]
    /\ fetchResult = [u \in Events |-> NoResult]
    /\ requests = <<>>
    /\ result = InitialResult
    /\ transcript = InitialTranscript
    /\ log = <<>>

Logged(u, ev) == [call |-> u, ev |-> ev]

\* Mutant: the catch block tries the upload again instead of rendering.
Catch_retry(u, error) ==
    /\ pc' = [pc EXCEPT ![u] = "awaitFetch"]
    /\ UNCHANGED <<result, transcript, log>>

\* Mutant: the catch block only logs to the console and renders nothing.
Catch_consoleOnly(u, error) ==
    /\ pc' = [pc EXCEPT ![u] = "done"]
    /\ UNCHANGED <<result, transcript, log>>

\* catch (error) { this.showError(error.message) } of call u.
Catch(u, error) ==
    /\ showError(error.message)
    /\ log' = Append(log, Logged(u, "showError"))
    /\ pc' = [pc EXCEPT ![u] = "done"]

\* Mutant: `transcriptionResult.transcription` is read outside the try, so
\* a TypeError there rejects the handler's promise unhandled.
Resume_readOutsideTry(u, completion) ==
    IF completion.threw THEN Catch(u, completion.error)
    ELSE LET text == GetProp(completion.value, "transcription") IN
         IF text.threw
         THEN /\ pc' = [pc EXCEPT ![u] = "unhandled"]
              /\ UNCHANGED <<result, transcript, log>>
         ELSE /\ showResult(text.value)
              /\ log' = Append(log, Logged(u, "showResult"))
              /\ pc' = [pc EXCEPT ![u] = "done"]

\* Mutant: a call that is no longer the latest upload drops its outcome.
Resume_latestOnly(u, completion) ==
    IF u # Len(changeEvents)
    THEN /\ pc' = [pc EXCEPT ![u] = "done"]
         /\ UNCHANGED <<result, transcript, log>>
    ELSE IF completion.threw THEN Catch(u, completion.error)
    ELSE LET text == GetProp(completion.value, "transcription") IN
         IF text.threw THEN Catch(u, text.error)
         ELSE /\ showResult(text.value)
              /\ log' = Append(log, Logged(u, "showResult"))
              /\ pc' = [pc EXCEPT ![u] = "done"]

\* The rest of the try block of call u once transcribeWithServerless has
\* completed with `completion`.
Resume(u, completion) ==
    IF completion.threw THEN Catch(u, completion.error)
    ELSE LET text == GetProp(completion.value, "transcription") IN
         IF text.threw THEN Catch(u, text.error)
         ELSE /\ showResult(text.value)
              /\ log' = Append(log, Logged(u, "showResult"))
              /\ pc' = [pc EXCEPT ![u] = "done"]

\* Mutant: the `if (!file) return` guard is missing.
HandleFileUpload_noGuard(file) ==
    LET u == Len(changeEvents) + 1 IN
    /\ u <= MaxEvents
    /\ changeEvents' = Append(changeEvents, file)
    /\ showLoading
    /\ requests' = Append(requests, [call |-> u, request |-> Request(file)])
    /\ log' = log \o <<Logged(u, "showLoading"), Logged(u, "fetch")>>
    /\ pc' = [pc EXCEPT ![u] = "awaitFetch"]
    /\ UNCHANGED fetchResult

\* Mutant: the request is issued first and showLoading is called after it.
HandleFileUpload_fetchFirst(file) ==
    LET u == Len(changeEvents) + 1 IN
    /\ u <= MaxEvents
    /\ changeEvents' = Append(changeEvents, file)
    /\ IF file = NoFile
       THEN /\ pc' = [pc EXCEPT ![u] = "returned"]
            /\ UNCHANGED <<fetchResult, requests, result, transcript, log>>
       ELSE /\ showLoading
            /\ requests' = Append(requests, [call |-> u, request |-> Request(file)])
            /\ log' = log \o <<Logged(u, "fetch"), Logged(u, "showLoading")>>
            /\ pc' = [pc EXCEPT ![u] = "awaitFetch"]
            /\ UNCHANGED fetchResult

\* A change event on the file input, with files[0] = file (NoFile when the
\* dialog was cancelled).  With a file the handler runs up to `await fetch`.
HandleFileUpload(file) ==
    LET u == Len(changeEvents) + 1 IN
    /\ u <= MaxEvents
    /\ changeEvents' = Append(changeEvents, file)
    /\ IF file = NoFile
       THEN /\ pc' = [pc EXCEPT ![u] = "returned"]
            /\ UNCHANGED <<fetchResult, requests, result, transcript, log>>
       ELSE /\ showLoading
            /\ requests' = Append(requests, [call |-> u, request |-> Request(file)])
            /\ log' = log \o <<Logged(u, "showLoading"), Logged(u, "fetch")>>
            /\ pc' = [pc EXCEPT ![u] = "awaitFetch"]
            /\ UNCHANGED fetchResult

\* fetch() of call u rejects: no response arrived.
FetchRejects(u, error) ==
    /\ pc[u] = "awaitFetch"
    /\ fetchResult' = [fetchResult EXCEPT ![u] = [kind |-> "rejected", error |-> error]]
    /\ Catch(u, error)
    /\ UNCHANGED <<changeEvents, requests>>

\* fetch() of call u resolves with a response; response.json() is called
\* on either branch and awaited.
FetchResolves(u, response) ==
    /\ pc[u] = "awaitFetch"
    /\ fetchResult' = [fetchResult EXCEPT ![u] = [kind |-> "response", response |-> response]]
    /\ pc' = [pc EXCEPT ![u] = IF ~Ok(response) THEN "awaitErrorJson" ELSE "awaitJson"]
    /\ UNCHANGED <<changeEvents, requests, result, transcript, log>>

\* Non-2xx branch: the body read settles, the error is built and thrown
\* into the handler's catch.
ErrorJsonSettles(u) ==
    /\ pc[u] = "awaitErrorJson"
    /\ LET response == fetchResult[u].response IN
       Resume(u, TranscriptionFailed(response, ErrorData(response)))
    /\ UNCHANGED <<changeEvents, fetchResult, requests>>

\* 2xx branch: the body read settles and the handler goes on.
JsonSettles(u) ==
    /\ pc[u] = "awaitJson"
    /\ Resume(u, Json(fetchResult[u].response))
    /\ UNCHANGED <<changeEvents, fetchResult, requests>>

Next ==
    \/ \E file \in Files \cup {NoFile} : HandleFileUpload(file)
    \/ \E u \in Events, error \in NetworkErrors : FetchRejects(u, error)
    \/ \E u \in Events, response \in Responses : FetchResolves(u, response)
    \/ \E u \in Events : ErrorJsonSettles(u)
    \/ \E u \in Events : JsonSettles(u)

Spec == Init /\ [][Next]_vars

----------------------------------------------------------------------------
\* The body read of a settled response settles in turn, and the event loop
\* then runs the continuation of the await.  Nothing makes fetch itself
\* settle: the code sets no timeout and never aborts the request.
Fairness ==
    \A u \in Events : WF_vars(ErrorJsonSettles(u)) /\ WF_vars(JsonSettles(u))

\* Whether a call ends does not depend on which file it uploads: the
\* behaviours checked for termination select one file or none.
NextLive ==
    \/ \E file \in {"set.mp3", NoFile} : HandleFileUpload(file)
    \/ \E u \in Events, error \in NetworkErrors : FetchRejects(u, error)
    \/ \E u \in Events, response \in Responses : FetchResolves(u, response)
    \/ \E u \in Events : ErrorJsonSettles(u)
    \/ \E u \in Events : JsonSettles(u)

SpecLive == Init /\ [][NextLive]_vars /\ Fairness

----------------------------------------------------------------------------
\* Vocabulary of the properties

Dispatched == 1..Len(changeEvents)
Uploads    == {u \in Dispatched : changeEvents[u] # NoFile}
Awaiting   == {"awaitFetch", "awaitErrorJson", "awaitJson"}
InFlight(u) == pc[u] \in Awaiting

RequestsOf(u)  == {i \in DOMAIN requests : requests[i].call = u}
Entries(u, ev) == {i \in DOMAIN log : log[i] = Logged(u, ev)}
FinalRenders(u) ==
    {i \in DOMAIN log : log[i].call = u /\ log[i].ev \in {"showResult", "showError"}}

Response(u) == fetchResult[u].response
Rejected(u) == fetchResult[u].kind = "rejected"
Responded(u) == fetchResult[u].kind = "response"

IsLoading ==
    /\ result.display = "block"
    /\ transcript = [innerHTML |-> <<"Processing audio with AI...">>,
                     className |-> "loading"]

----------------------------------------------------------------------------
\* C1: every change event that carries a file has issued exactly one POST
\* to /api/transcribe with that file under the field name `file`, and this
\* stays so whatever the request's outcome (no retry, no suppression).
C1_ExactlyOnePost ==
    \A u \in Dispatched :
        IF changeEvents[u] = NoFile THEN RequestsOf(u) = {}
        ELSE /\ Cardinality(RequestsOf(u)) = 1
             /\ \A i \in RequestsOf(u) :
                    requests[i].request =
                        [url |-> <<"window.location.origin", "/api/transcribe">>,
                         method |-> "POST",
                         body |-> [file |-> changeEvents[u]]]

\* A failed upload (rejection, non-2xx, malformed body) after its error
\* render, still with its one request.
C1_Witness ==
    /\ Len(changeEvents) = MaxEvents
    /\ \A u \in Dispatched : pc[u] = "done" /\ transcript.className = "error"
    /\ \E u \in Dispatched : Rejected(u)
    /\ \E u \in Dispatched : Responded(u) /\ ~Ok(Response(u))
    /\ Len(requests) = MaxEvents

\* C2: a change event with no file issues no request and leaves display,
\* text and class as they were, in whatever state it arrives.
C2_NoFileNoEffect ==
    [][ \A u \in Events :
            (pc[u] = "idle" /\ pc'[u] # "idle" /\ changeEvents'[u] = NoFile)
                => UNCHANGED <<requests, result, transcript, log, fetchResult>>
      ]_vars

\* A no-file event that arrived while an earlier request was in flight.
C2_Witness ==
    \E u, v \in Dispatched :
        /\ u < v
        /\ changeEvents[v] = NoFile /\ pc[v] = "returned"
        /\ pc[u] = "awaitFetch"
        /\ IsLoading
        /\ Len(requests) = 1

\* The text painted after the step.
RenderedTextAfter == TextContent(transcript'.innerHTML)

\* The last entry of the log is call u's entry ev.
LastLogged(u, ev) == log # <<>> /\ log[Len(log)] = Logged(u, ev)

\* The 2xx response of call u carries a JSON object.
ObjectBody(u) == Response(u).body.type = "object"

\* C3: a 2xx response whose JSON body carries a non-empty `transcription`
\* string is rendered as that string verbatim, in the Success state.
C3_VerbatimSuccess ==
    [][ \A u \in Events :
            ( /\ pc[u] = "awaitJson" /\ pc'[u] = "done"
              /\ ObjectBody(u)
              /\ Response(u).body.transcription.type = "string"
              /\ Response(u).body.transcription.s # <<>> )
            => /\ RenderedTextAfter = Response(u).body.transcription.s
               /\ transcript'.className = ""
      ]_vars

\* C4: a 2xx response whose JSON object has an empty or absent
\* `transcription` is rendered as "No transcript generated.", in the
\* Success state.
C4_FallbackSuccess ==
    [][ \A u \in Events :
            ( /\ pc[u] = "awaitJson" /\ pc'[u] = "done"
              /\ ObjectBody(u)
              /\ \/ Response(u).body.transcription.type = "absent"
                 \/ Response(u).body.transcription = Str(<<>>) )
            => /\ RenderedTextAfter = <<"No transcript generated.">>
               /\ transcript'.className = ""
               /\ log' = Append(log, Logged(u, "showResult"))
      ]_vars

\* An upload answered 200 {} whose fallback render is on the page.
C4_Witness ==
    \E u \in Uploads :
        /\ pc[u] = "done" /\ Responded(u) /\ Ok(Response(u))
        /\ Response(u).body = Obj(Absent, Absent)
        /\ LastLogged(u, "showResult")
        /\ RenderedText = <<"No transcript generated.">>
        /\ transcript.className = ""

\* C5: for every non-2xx response the rendered error message contains the
\* status code and the status text, and the `detail` string when the body
\* supplies one.
C5_ErrorCarriesStatusAndDetail ==
    [][ \A u \in Events :
            (pc[u] = "awaitErrorJson" /\ pc'[u] = "done")
            => /\ transcript'.className = "error"
               /\ Contains(RenderedTextAfter, NumberToString(Response(u).status))
               /\ Contains(RenderedTextAfter, Response(u).statusText)
               /\ ( /\ ObjectBody(u)
                    /\ Response(u).body.detail.type = "string" )
                  => Contains(RenderedTextAfter, Response(u).body.detail.s)
      ]_vars

\* C6: for a non-2xx response whose body is not JSON, or whose parsed body
\* has no `detail`, the rendered error message contains "Unknown error",
\* the status code and the status text.
C6_UnknownError ==
    [][ \A u \in Events :
            ( /\ pc[u] = "awaitErrorJson" /\ pc'[u] = "done"
              /\ \/ ~ObjectBody(u)
                 \/ Response(u).body.detail.type = "absent" )
            => /\ transcript'.className = "error"
               /\ Contains(RenderedTextAfter, <<"Unknown error">>)
               /\ Contains(RenderedTextAfter, NumberToString(Response(u).status))
               /\ Contains(RenderedTextAfter, Response(u).statusText)
      ]_vars

\* C7: when fetch rejects before any response, the UI goes to the Error
\* state and the rendered text contains the failure's message and the four
\* items of the troubleshooting checklist.
C7_NetworkFailure ==
    [][ \A u \in Events :
            (pc[u] = "awaitFetch" /\ pc'[u] = "done")
            => /\ result'.display = "block"
               /\ transcript'.className = "error"
               /\ Contains(RenderedTextAfter, fetchResult'[u].error.message)
               /\ Contains(RenderedTextAfter,
                    <<"\n1. Use a supported audio format (MP3, WAV, M4A, FLAC, etc.)">>)
               /\ Contains(RenderedTextAfter, <<"\n2. Check your internet connection">>)
               /\ Contains(RenderedTextAfter, <<"\n3. File is not empty or corrupted">>)
               /\ Contains(RenderedTextAfter, <<"\n4. File is under 25MB">>)
      ]_vars

\* An upload whose fetch was rejected, with its error render on the page.
C7_Witness ==
    \E u \in Uploads :
        /\ pc[u] = "done" /\ Rejected(u)
        /\ LastLogged(u, "showError")
        /\ transcript.className = "error"
        /\ Contains(RenderedText, <<"Error: ", "Failed to fetch">>)

\* The upload of call u has failed: fetch rejected, the response is not
\* 2xx, or the 2xx body is not JSON or is null.
Failed(u) ==
    \/ Rejected(u)
    \/ /\ Responded(u)
       /\ \/ ~Ok(Response(u))
          \/ Response(u).body.type \in {"unparseable", "null"}

\* The step taken by call u is one at which its upload fails.
FailsNow(u) ==
    \/ pc[u] = "awaitFetch" /\ fetchResult'[u].kind = "rejected"
    \/ pc[u] = "awaitErrorJson"
    \/ pc[u] = "awaitJson" /\ Response(u).body.type \in {"unparseable", "null"}

\* C8: a failure at any step of an upload is caught in handleFileUpload and
\* gives exactly one Error render of that upload: the handler ends normally,
\* the UI leaves Loading, and no Success render of that upload follows.
C8_FailuresCaught ==
    /\ [](\A u \in Events :
            /\ pc[u] \in {"idle", "returned", "done"} \cup Awaiting
            /\ (pc[u] = "done" /\ Failed(u))
                  => /\ Cardinality(Entries(u, "showError")) = 1
                     /\ Entries(u, "showResult") = {})
    /\ [][ \A u \in Events :
            (pc[u] \in Awaiting /\ pc'[u] # pc[u] /\ FailsNow(u))
            => /\ pc'[u] = "done"
               /\ transcript'.className = "error"
               /\ Contains(transcript'.innerHTML, <<"Error: ">>)
               /\ log' = Append(log, Logged(u, "showError"))
         ]_vars

\* Two uploads, one failed on a null 2xx body and then one on a 2xx body
\* that is not JSON, each with its Error render.
C8_Witness ==
    \E u, v \in Uploads :
        /\ pc[u] = "done" /\ pc[v] = "done"
        /\ Responded(u) /\ Ok(Response(u)) /\ Response(u).body = Null
        /\ Responded(v) /\ Ok(Response(v)) /\ Response(v).body = Unparseable
        /\ Entries(u, "showError") # {} /\ LastLogged(v, "showError")
        /\ Contains(RenderedText, <<"Error: ", "Unexpected end of JSON input">>)

\* The transcript element that the final render of call u leaves.
FinalTranscript(u) ==
    LET r == fetchResult[u]
        errorHTML(e) == [innerHTML |-> <<"Error: ">> \o e.message \o Checklist,
                         className |-> "error"]
        done == IF r.kind = "rejected" THEN Throw(r.error)
                ELSE IF ~Ok(r.response)
                     THEN TranscriptionFailed(r.response, ErrorData(r.response))
                     ELSE Json(r.response)
    IN  IF done.threw THEN errorHTML(done.error)
        ELSE IF done.value.type = "null"
             THEN errorHTML(TypeErrorNull("transcription"))
             ELSE IF done.value.type = "object"
                     /\ done.value.transcription.type = "string"
                     /\ done.value.transcription.s # <<>>
                  THEN [innerHTML |-> done.value.transcription.s, className |-> ""]
                  ELSE [innerHTML |-> FallbackText, className |-> ""]

\* Call v was started while call u (started earlier) was unresolved.
Overlap(u, v) ==
    /\ u < v /\ changeEvents[u] # NoFile /\ changeEvents[v] # NoFile
    /\ \A i \in FinalRenders(u) : \E j \in Entries(v, "fetch") : j < i

\* Some step of call u is enabled.
CanSettle(u) ==
    ENABLED ( \/ \E error \in NetworkErrors : FetchRejects(u, error)
              \/ \E response \in Responses : FetchResolves(u, response)
              \/ ErrorJsonSettles(u)
              \/ JsonSettles(u) )

\* Call w is not cancelled or skipped: it has its one request, can go on
\* while unresolved and has rendered exactly once when resolved.
RunsToCompletion(w) ==
    /\ Cardinality(RequestsOf(w)) = 1
    /\ IF pc[w] = "done" THEN Cardinality(FinalRenders(w)) = 1
       ELSE FinalRenders(w) = {} /\ CanSettle(w)

\* C9: when a second upload starts before the first has resolved, neither
\* is cancelled or skipped (each can always go on, has its one request and,
\* once resolved, its one final render), and once both have resolved the
\* page shows the outcome of the call that resolved last (until a later
\* upload starts and shows Loading).
C9_LastResolvedWins ==
    \A v \in Dispatched : \A u \in 1..(v - 1) :
        Overlap(u, v) =>
            /\ RunsToCompletion(u)
            /\ RunsToCompletion(v)
            /\ (pc[u] = "done" /\ pc[v] = "done"
                  /\ log[Len(log)].ev \in {"showResult", "showError"})
                 => transcript = FinalTranscript(log[Len(log)].call)

\* Two overlapping uploads, the first selected resolving last: the page
\* shows the first upload's error, not the second upload's transcript.
C9_Witness ==
    /\ Len(changeEvents) >= 2
    /\ Overlap(1, 2)
    /\ pc[1] = "done" /\ pc[2] = "done"
    /\ changeEvents[1] # changeEvents[2]
    /\ Entries(2, "showResult") # {}
    /\ LastLogged(1, "showError")
    /\ transcript.className = "error"

\* No other upload overlaps call u: each was resolved before u started.
Alone(u) ==
    \A v \in Dispatched \ {u} :
        changeEvents[v] # NoFile =>
            \E i \in FinalRenders(v) : \A j \in Entries(u, "showLoading") : i < j

\* C10: within an upload the Loading render comes before the POST, and the
\* single final render comes only after the request has resolved or been
\* rejected; while the request of the only unresolved upload is in flight
\* the page shows the Loading render.
C10_UploadOrder ==
    \A u \in Dispatched :
        changeEvents[u] # NoFile =>
            LET loadings == Entries(u, "showLoading")
                fetches  == Entries(u, "fetch")
                finals   == FinalRenders(u)
            IN  /\ Cardinality(loadings) = 1
                /\ Cardinality(fetches) = 1
                /\ \A i \in loadings, j \in fetches : i < j
                /\ Cardinality(finals) <= 1
                /\ \A j \in fetches, k \in finals : j < k
                /\ finals # {} <=> pc[u] = "done"
                /\ finals # {} => fetchResult[u] # NoResult
                /\ LastLogged(u, "fetch") => IsLoading
                /\ (InFlight(u) /\ Alone(u)) => IsLoading

\* One upload alone, its response arrived and its body still being read:
\* the page still shows Loading.
C10_Witness ==
    \E u \in Uploads :
        /\ Alone(u) /\ pc[u] = "awaitJson"
        /\ \E v \in Uploads : v < u /\ pc[v] = "done"
        /\ IsLoading

\* C11: a 2xx response whose body is not JSON goes to the Error render, not
\* the Success render: the rendered text is the troubleshooting template
\* with the parse failure's message in it, the fallback "No transcript
\* generated." is not shown and the text carries no status code.
C11_ParseFailureRendered ==
    [][ \A u \in Events :
            ( /\ pc[u] = "awaitJson" /\ pc'[u] = "done"
              /\ Response(u).body.type = "unparseable" )
            => /\ transcript'.className = "error"
               /\ log' = Append(log, Logged(u, "showError"))
               /\ Contains(RenderedTextAfter, <<"Error: ">> \o Json(Response(u)).error.message)
               /\ Contains(RenderedTextAfter, <<"\n\nMake sure to:">>)
               /\ Contains(RenderedTextAfter,
                    <<"\n1. Use a supported audio format (MP3, WAV, M4A, FLAC, etc.)">>)
               /\ Contains(RenderedTextAfter, <<"\n2. Check your internet connection">>)
               /\ Contains(RenderedTextAfter, <<"\n3. File is not empty or corrupted">>)
               /\ Contains(RenderedTextAfter, <<"\n4. File is under 25MB">>)
               /\ ~Contains(RenderedTextAfter, <<"No transcript generated.">>)
               /\ ~Contains(RenderedTextAfter, NumberToString(Response(u).status))
      ]_vars

\* C12: an upload whose request resolves or rejects ends with exactly one
\* final render and its handler terminates; an upload leaves awaitFetch
\* only when fetch settles (no timeout, no cancellation), so while its
\* request is unresolved it has no final render and, with no other upload,
\* the page stays in Loading.
C12_Termination ==
    /\ [](\A u \in Events :
            /\ pc[u] = "done" => Cardinality(FinalRenders(u)) = 1 /\ ~CanSettle(u)
            /\ pc[u] = "awaitFetch"
                  => /\ fetchResult[u] = NoResult
                     /\ FinalRenders(u) = {}
                     /\ Alone(u) => IsLoading)
    /\ [][ \A u \in Events :
            (pc[u] = "awaitFetch" /\ pc'[u] # "awaitFetch")
                => fetchResult'[u] # NoResult
         ]_vars
    /\ \A u \in Events :
            (fetchResult[u] # NoResult)
                ~> (pc[u] = "done" /\ Cardinality(FinalRenders(u)) = 1)

\* One upload resolved and rendered, and a later one whose request is
\* still unresolved: the page shows Loading.
C12_Witness ==
    \E u, v \in Uploads :
        /\ u < v
        /\ pc[u] = "done" /\ Responded(u) /\ Cardinality(FinalRenders(u)) = 1
        /\ pc[v] = "awaitFetch" /\ FinalRenders(v) = {}
        /\ IsLoading

\* The four states of the renderer, read from the page.
IsHidden  == result.display = "none" /\ transcript = [innerHTML |-> <<>>, className |-> ""]
IsSuccess == result.display = "block" /\ transcript.className = ""
IsError   ==
    /\ result.display = "block" /\ transcript.className = "error"
    /\ Len(transcript.innerHTML) >= 1 /\ transcript.innerHTML[1] = "Error: "

\* The render applied last ("none" before the first one); the fetch call
\* of an upload directly follows its Loading render.
LastRender ==
    IF log = <<>> THEN "none"
    ELSE IF log[Len(log)].ev = "fetch" THEN "showLoading" ELSE log[Len(log)].ev

\* C13: the transcript's class is the one of the render applied last
\* ('loading', 'error', or none after a Success render), the page is in
\* exactly one of Hidden, Loading, Success, Error, and the page changes only
\* in a step of handleFileUpload that calls showLoading, showResult or
\* showError.
C13_ClassAgreesWithRender ==
    /\ [](/\ LastRender = "none"        => IsHidden
          /\ LastRender = "showLoading" => IsLoading /\ transcript.className = "loading"
          /\ LastRender = "showResult"  => IsSuccess /\ transcript.className = ""
          /\ LastRender = "showError"   => IsError /\ transcript.className = "error"
          /\ Cardinality({k \in {"hidden", "loading", "success", "error"} :
                 \/ k = "hidden" /\ IsHidden
                 \/ k = "loading" /\ IsLoading
                 \/ k = "success" /\ IsSuccess
                 \/ k = "error" /\ IsError}) = 1)
    /\ [][ (transcript' # transcript \/ result' # result)
            => \E u \in Events :
                 /\ pc'[u] # pc[u]
                 /\ Len(log') > Len(log)
                 /\ log'[Len(log')].call = u
                 /\ log'[Len(log')].ev \in {"fetch", "showResult", "showError"}
         ]_vars

\* An Error render of one upload replaced by the Success render of another:
\* the class went from 'error' back to none.
C13_Witness ==
    \E u, v \in Uploads :
        /\ Entries(u, "showError") # {}
        /\ LastLogged(v, "showResult")
        /\ transcript.className = ""
        /\ result.display = "block"

\* C14: the result area is hidden exactly until the first upload that
\* carries a file and is never hidden again; whenever the transcript shows
\* a Loading, Success or Error render the area is visible, because the
\* final renders leave the visibility alone and come after the showLoading
\* of their upload.
C14_VisibleAfterFirstUpload ==
    /\ [](/\ result.display \in {"none", "block"}
          /\ result.display = "none" <=> Uploads = {}
          /\ LastRender # "none" => result.display = "block"
          /\ \A u \in Dispatched :
                \A k \in FinalRenders(u) :
                    \E i \in Entries(u, "showLoading") : i < k)
    /\ [][ /\ result.display = "block" => result'.display = "block"
           /\ (Len(log') > Len(log)
                 /\ log'[Len(log')].ev \in {"showResult", "showError"})
                => result' = result
         ]_vars

\* The page stayed hidden through a cancelled dialog, then an upload went
\* through to its final render with the area visible.
C14_Witness ==
    /\ Len(changeEvents) >= 2
    /\ changeEvents[1] = NoFile
    /\ pc[2] = "done"
    /\ LastRender \in {"showResult", "showError"}
    /\ result.display = "block"

\* C15: whenever the page shows the Loading render some request is in
\* flight; so once an upload has been started and every issued request has
\* resolved or been rejected, the page shows Success or Error, never
\* Loading or Hidden.
C15_LoadingHasRequestInFlight ==
    /\ (IsLoading \/ transcript.className = "loading")
          => \E u \in Uploads : InFlight(u)
    /\ (Uploads # {} /\ \A u \in Uploads : pc[u] = "done")
          => /\ IsSuccess \/ IsError
             /\ ~IsLoading /\ ~IsHidden
             /\ LastRender \in {"showResult", "showError"}

\* Two overlapping uploads, the later selected resolving first, both
\* resolved: the page shows a Success render and nothing is in flight.
C15_Witness ==
    /\ Len(changeEvents) >= 2
    /\ Overlap(1, 2)
    /\ pc[1] = "done" /\ pc[2] = "done"
    /\ \E i \in FinalRenders(2), j \in FinalRenders(1) : i < j
    /\ IsSuccess
    /\ ~\E u \in Uploads : InFlight(u)

====
